---- MODULE Spec2Model ----
(***************************************************************************)
(* Model of the Gemini + web search chat backend:                          *)
(*   backend/app.py            the Flask route chat() for POST /api/chat   *)
(*   backend/gemini_client.py  perform_web_search, GeminiClient and the    *)
(*                             command line loop under __main__            *)
(*                                                                         *)
(* A text is a sequence of atoms.  An atom is one character of an input    *)
(* (a one-character string) or one literal of the source kept whole; the   *)
(* text denotes the concatenation of its atoms.  Python values carry their *)
(* type in the field pytype, so that None, str, dict and list values can   *)
(* be told apart the way isinstance and truthiness tell them apart.        *)
(***************************************************************************)
EXTENDS Integers, Sequences, FiniteSets, TLC

\* ------------------------------------------------------------------ bounds
\* longest free part of an input after its head
MaxTail == 3
\* most entries the search collaborator hands back in one call
MaxRaw == 2
\* most conversation turns one chat session records
MaxTurns == 1

\* ------------------------------------------------------------ Python values
PyNone == [pytype |-> "NoneType"]
PyStr(t) == [pytype |-> "str", v |-> t]
PyDict(d) == [pytype |-> "dict", v |-> d]
PyList(l) == [pytype |-> "list", v |-> l]
PyInt(n) == [pytype |-> "int", v |-> n]

\* bool(x) of Python for the values above
Truthy(x) ==
  CASE x.pytype = "NoneType" -> FALSE
    [] x.pytype = "str" -> x.v /= <<>>
    [] x.pytype = "list" -> x.v /= <<>>
    [] x.pytype = "dict" -> DOMAIN x.v /= {}
    [] x.pytype = "int" -> x.v /= 0
    [] OTHER -> TRUE

\* dict.get(key, default)
DictGet(d, key, default) == IF key \in DOMAIN d THEN d[key] ELSE default

\* the dict with no key
EmptyDict == [k \in {} |-> PyNone]

\* -------------------------------------------------------------- str methods
IsSpace(c) == c \in {" ", "\t", "\n"}

\* str.lower() on one character: the letters the inputs are made of
LowerChar(c) ==
  CASE c = "S" -> "s" [] c = "E" -> "e" [] c = "A" -> "a" [] c = "R" -> "r"
    [] c = "C" -> "c" [] c = "H" -> "h" [] c = "B" -> "b" [] c = "Q" -> "q"
    [] c = "U" -> "u" [] c = "I" -> "i" [] c = "T" -> "t" [] c = "X" -> "x"
    [] OTHER -> c

\* str.lower()
Lower(s) == [i \in 1..Len(s) |-> LowerChar(s[i])]

RECURSIVE LStrip(_)
LStrip(s) ==
  IF s = <<>> THEN <<>>
  ELSE IF IsSpace(Head(s)) THEN LStrip(Tail(s)) ELSE s

RECURSIVE RStrip(_)
RStrip(s) ==
  IF s = <<>> THEN <<>>
  ELSE IF IsSpace(s[Len(s)]) THEN RStrip(SubSeq(s, 1, Len(s) - 1)) ELSE s

\* str.strip()
Strip(s) == RStrip(LStrip(s))

\* str.startswith(prefix)
StartsWith(s, prefix) ==
  /\ Len(s) >= Len(prefix)
  /\ SubSeq(s, 1, Len(prefix)) = prefix

\* str.find(sep) counted from 1, 0 when sep does not occur at or after i
RECURSIVE Find(_, _, _)
Find(s, sep, i) ==
  IF i > Len(s) THEN 0
  ELSE IF s[i] = sep THEN i ELSE Find(s, sep, i + 1)

\* str.split(sep, 1): one part when sep is absent, else the parts around
\* its first occurrence
Split1(s, sep) ==
  LET p == Find(s, sep, 1)
  IN IF p = 0 THEN <<s>>
     ELSE <<SubSeq(s, 1, p - 1), SubSeq(s, p + 1, Len(s))>>

\* ------------------------------------------------ the external collaborators
\* What DDGS().text(query, max_results) does in one call: it raises, or it
\* hands back a list of entries.
DdgsRaises == [raises |-> TRUE, items |-> <<>>]
DdgsReturns(items) == [raises |-> FALSE, items |-> items]

\* What chat.send_message(message) followed by response.text does: the send
\* raises (nothing is recorded), the send is recorded but reading .text
\* raises, or the send is recorded and .text is the reply.
GeminiSendRaises == [outcome |-> "send_raises", text |-> <<>>, error |-> <<"503 upstream detail">>]
GeminiTextRaises == [outcome |-> "text_raises", text |-> <<>>, error |-> <<"response has no text part">>]
GeminiReplies(t) == [outcome |-> "ok", text |-> t, error |-> <<>>]

\* one logged call to a collaborator, with what the collaborator did
SearchCall(query, limit, reply) ==
  [to |-> "search", query |-> query, max_results |-> limit, reply |-> reply]
SendCall(message, reply) == [to |-> "ai", message |-> message, reply |-> reply]

\* the conversation handle start_chat returns; history counts recorded turns
ChatSession(n) == [pytype |-> "ChatSession", history |-> n]

\* ------------------------------------------------------ gemini_client.py
\* the filter loop of perform_web_search over the entries handed back
RECURSIVE KeepResults(_)
KeepResults(items) ==
  IF items = <<>> THEN <<>>
  ELSE LET result == Head(items)
           rest == KeepResults(Tail(items))
       IN IF result.pytype /= "dict" THEN rest
          ELSE LET title == DictGet(result.v, "title", <<>>)
                   href == DictGet(result.v, "href", <<>>)
                   body == DictGet(result.v, "body", <<>>)
               IN IF title /= <<>> /\ href /= <<>>
                  THEN <<[title |-> title, href |-> href, body |-> body]>> \o rest
                  ELSE rest

\* perform_web_search keeping an entry that has a title or an href
perform_web_search_either(query, limit, ddgs) ==
  LET kept == SelectSeq(ddgs.items,
                LAMBDA e : /\ e.pytype = "dict"
                           /\ \/ DictGet(e.v, "title", <<>>) /= <<>>
                              \/ DictGet(e.v, "href", <<>>) /= <<>>)
  IN [results |-> IF ddgs.raises THEN <<>>
                  ELSE [i \in 1..Len(kept) |->
                          [title |-> DictGet(kept[i].v, "title", <<>>),
                           href |-> DictGet(kept[i].v, "href", <<>>),
                           body |-> DictGet(kept[i].v, "body", <<>>)]],
      calls |-> <<SearchCall(query, limit, ddgs)>>]

\* perform_web_search(query, max_results): the results kept and the call made
perform_web_search(query, limit, ddgs) ==
  [results |-> IF ddgs.raises THEN <<>> ELSE KeepResults(ddgs.items),
   calls |-> <<SearchCall(query, limit, ddgs)>>]

\* GeminiClient.__init__: the client built from the environment's key and
\* from whether the SDK's configure / GenerativeModel / start_chat raise
GeminiClient_init(api_key, sdk_raises) ==
  IF ~Truthy(api_key) THEN [chat |-> PyNone]
  ELSE IF sdk_raises THEN [chat |-> PyNone]
  ELSE [chat |-> ChatSession(0)]

\* the trigger detection taking "/search" without the space that follows it
search_trigger_loose(text) ==
  LET lower == Lower(text)
  IN IF StartsWith(lower, <<"s", "e", "a", "r", "c", "h", ":">>)
     THEN PyStr(Strip(Split1(text, ":")[2]))
     ELSE IF StartsWith(lower, <<"/", "s", "e", "a", "r", "c", "h">>)
     THEN PyStr(Strip(SubSeq(text, 8, Len(text))))
     ELSE PyNone

\* the trigger detection cutting the query out of the lowercase copy
search_trigger_lowered(text) ==
  LET lower == Lower(text)
  IN IF StartsWith(lower, <<"s", "e", "a", "r", "c", "h", ":">>)
     THEN PyStr(Strip(Split1(lower, ":")[2]))
     ELSE IF StartsWith(lower, <<"/", "s", "e", "a", "r", "c", "h", " ">>)
     THEN PyStr(Strip(Split1(lower, " ")[2]))
     ELSE PyNone

\* the trigger detection of generate_response: None or the search query
search_trigger(text) ==
  LET lower == Lower(text)
  IN IF StartsWith(lower, <<"s", "e", "a", "r", "c", "h", ":">>)
     THEN PyStr(Strip(Split1(text, ":")[2]))
     ELSE IF StartsWith(lower, <<"/", "s", "e", "a", "r", "c", "h", " ">>)
     THEN PyStr(Strip(Split1(text, " ")[2]))
     ELSE PyNone

\* the atom standing for the dash character U+2014 of the entry format
EmDash == "U+2014"

\* one entry of the references block, i counted from 1
RefEntry(i, r) ==
  <<"[", ToString(i), "] ">> \o r.title \o <<" ", EmDash, " ">> \o r.href \o <<"\n">> \o r.body

RECURSIVE JoinRefs(_, _)
JoinRefs(web_results, i) ==
  IF i > Len(web_results) THEN <<>>
  ELSE RefEntry(i, web_results[i])
       \o (IF i < Len(web_results) THEN <<"\n\n">> ELSE <<>>)
       \o JoinRefs(web_results, i + 1)

system_prompt ==
  <<"You are an AI research assistant. Use the provided web results to answer the user query. Cite sources inline like [1], [2], and include a concise summary.">>

\* the prompt composed on the search path
Composed(search_query, web_results) ==
  <<"<system>\n">> \o system_prompt \o <<"\n</system>\n", "<user_query>\n">>
  \o search_query \o <<"\n</user_query>\n", "<web_results>\n">>
  \o JoinRefs(web_results, 1) \o <<"\n</web_results>">>

\* an exception object carrying its message
PyException(message) == [pytype |-> "Exception", v |-> message]

\* send_message returning response.text as it came
send_message_untrimmed(message, gemini) ==
  [raised |-> gemini.outcome /= "ok",
   error |-> PyException(gemini.error),
   text |-> gemini.text,
   calls |-> <<SendCall(message, gemini)>>,
   turns |-> IF gemini.outcome = "send_raises" THEN 0 ELSE 1]

\* self.chat.send_message(message) and response.text.strip(): the text or
\* the exception raised, the call logged and the turns recorded
send_message(message, gemini) ==
  [raised |-> gemini.outcome /= "ok",
   error |-> PyException(gemini.error),
   text |-> IF gemini.outcome = "ok" THEN Strip(gemini.text) ELSE <<>>,
   calls |-> <<SendCall(message, gemini)>>,
   turns |-> IF gemini.outcome = "send_raises" THEN 0 ELSE 1]

SearchFailed == [success |-> FALSE, response |-> <<"Could not retrieve web results.">>]
RequestFailed == [success |-> FALSE, response |-> <<"An error occurred while processing your request.">>]
NotConfigured == <<"AI service is not configured correctly.">>

\* the number given to perform_web_search on the search path
max_results == 6

\* the body of the try block of generate_response: the value returned, or
\* the exception that leaves the block
TryBlock(user_input, ddgs, gemini) ==
  LET text == Strip(user_input)
      search_query == search_trigger(text)
  IN IF Truthy(search_query)
     THEN LET found == perform_web_search(search_query.v, max_results, ddgs)
              web_results == found.results
          IN IF web_results = <<>>
             THEN [raised |-> FALSE, value |-> PyDict(SearchFailed),
                   calls |-> found.calls, turns |-> 0]
             ELSE LET sent == send_message(Composed(search_query.v, web_results), gemini)
                  IN [raised |-> sent.raised,
                      value |-> IF sent.raised THEN sent.error
                                ELSE PyDict([success |-> TRUE, mode |-> "web_search",
                                             query |-> search_query.v,
                                             response |-> sent.text]),
                      calls |-> found.calls \o sent.calls, turns |-> sent.turns]
     ELSE LET sent == send_message(text, gemini)
          IN [raised |-> sent.raised,
              value |-> IF sent.raised THEN sent.error
                        ELSE PyDict([success |-> TRUE, mode |-> "chat",
                                     response |-> sent.text]),
              calls |-> sent.calls, turns |-> sent.turns]

\* an except clause that lets the exception through
ExceptClause_reraise(attempt) == attempt

\* the except clause of generate_response
ExceptClause(attempt) ==
  IF attempt.raised
  THEN [raised |-> FALSE, value |-> PyDict(RequestFailed),
        calls |-> attempt.calls, turns |-> attempt.turns]
  ELSE attempt

\* generate_response without the check of self.chat
generate_response_unguarded(client_chat, user_input, ddgs, gemini) ==
  ExceptClause(TryBlock(user_input, ddgs, gemini))

\* GeminiClient.generate_response(user_input)
generate_response(client_chat, user_input, ddgs, gemini) ==
  IF ~Truthy(client_chat)
  THEN [raised |-> FALSE, value |-> PyStr(NotConfigured), calls |-> <<>>, turns |-> 0]
  ELSE ExceptClause(TryBlock(user_input, ddgs, gemini))

\* the command line loop under __main__, one turn: the loop ends on exit or
\* quit, else the reply is printed; an exception out of generate_response
\* would end the script
main_turn(client_chat, user_input, ddgs, gemini) ==
  IF Lower(user_input) \in {<<"e", "x", "i", "t">>, <<"q", "u", "i", "t">>}
  THEN [ends |-> "break", printed |-> <<>>, result |-> PyNone, generated |-> PyNone,
        calls |-> <<>>, turns |-> 0]
  ELSE LET result == generate_response(client_chat, user_input, ddgs, gemini)
       IN [ends |-> IF result.raised THEN "traceback" ELSE "continue",
           printed |-> IF result.raised THEN <<>>
                       ELSE IF result.value.pytype = "dict"
                       THEN result.value.v.response ELSE result.value.v,
           result |-> result.value, generated |-> PyStr(user_input),
           calls |-> result.calls, turns |-> result.turns]

\* ----------------------------------------------------------------- app.py
\* request.get_json(silent=True): None when the body does not decode
get_json(body) == IF body.decodes THEN body.json ELSE PyNone

\* jsonify(data), status: the response the route returns
JsonResponse(status, data) == [via |-> "http", status |-> status, body |-> PyDict(data)]

\* what Flask answers when the view function lets an exception out
InternalServerError == [via |-> "http", status |-> 500, body |-> PyStr(<<"Internal Server Error">>)]

NoMessage == [success |-> FALSE, error |-> <<"No message provided.">>]
GenerationError == [success |-> FALSE, error |-> <<"Error generating response.">>]

\* the first two lines of chat() without the .strip()
read_message_unstripped(body) ==
  LET got == get_json(body)
      payload == IF Truthy(got) THEN got ELSE PyDict(EmptyDict)
  IN IF payload.pytype /= "dict"
     THEN [raised |-> TRUE, user_message |-> <<>>]
     ELSE LET message == DictGet(payload.v, "message", PyStr(<<>>))
          IN IF message.pytype /= "str"
             THEN [raised |-> TRUE, user_message |-> <<>>]
             ELSE [raised |-> FALSE, user_message |-> message.v]

\* the first two lines of chat(): the trimmed message, or the AttributeError
\* of calling .get on a non-dict payload or .strip on a non-str message
read_message(body) ==
  LET got == get_json(body)
      payload == IF Truthy(got) THEN got ELSE PyDict(EmptyDict)
  IN IF payload.pytype /= "dict"
     THEN [raised |-> TRUE, user_message |-> <<>>]
     ELSE LET message == DictGet(payload.v, "message", PyStr(<<>>))
          IN IF message.pytype /= "str"
             THEN [raised |-> TRUE, user_message |-> <<>>]
             ELSE [raised |-> FALSE, user_message |-> Strip(message.v)]

\* the try block of chat(): the response made from what the generator returned
respond(response_data) ==
  IF response_data.raised
  THEN JsonResponse(500, GenerationError)
  ELSE IF response_data.value.pytype = "dict"
  THEN JsonResponse(200, [success |-> TRUE,
                          response |-> DictGet(response_data.value.v, "response", <<>>)])
  ELSE JsonResponse(200, [success |-> TRUE, response |-> response_data.value.v])

\* the route chat(): the response, and what the generator did for it
chat(client_chat, body, ddgs, gemini) ==
  LET read == read_message(body)
      idle == [result |-> PyNone, generated |-> PyNone, calls |-> <<>>, turns |-> 0]
  IN IF read.raised
     THEN [response |-> InternalServerError] @@ idle
     ELSE IF read.user_message = <<>>
     THEN [response |-> JsonResponse(400, NoMessage)] @@ idle
     ELSE LET response_data ==
                generate_response(client_chat, read.user_message, ddgs, gemini)
          IN [response |-> respond(response_data),
              result |-> response_data.value,
              generated |-> PyStr(read.user_message),
              calls |-> response_data.calls,
              turns |-> response_data.turns]

\* ------------------------------------------------------------ the inputs
TailAlphabet == {"B", " ", ":"}
Tails == UNION {[1..n -> TailAlphabet] : n \in 0..MaxTail}

Heads ==
  {<<>>,
   <<"s", "e", "a", "r", "c", "h", ":">>,
   <<"S", "e", "A", "r", "C", "h", ":">>,
   <<"\n", "s", "e", "a", "r", "c", "h", ":">>,
   <<"/", "s", "e", "a", "r", "c", "h", " ">>,
   <<"/", "S", "E", "A", "R", "C", "H", " ">>,
   <<"/", "s", "e", "a", "r", "c", "h", "\t">>,
   <<"s", "e", "a", "r", "c", "h">>,
   <<"Q", "u", "i", "t">>}

\* the texts a user can type or post
Lines == {h \o t : h \in Heads, t \in Tails}

\* the JSON values a request body can decode to
Jsons ==
  {PyNone, PyList(<<>>), PyList(<<PyInt(1)>>), PyDict(EmptyDict),
   PyDict([other |-> PyStr(<<"B">>)]),
   PyDict([message |-> PyNone]), PyDict([message |-> PyInt(1)])}
  \cup {PyDict([message |-> PyStr(l)]) : l \in Lines}

\* the bodies of POST /api/chat
Bodies ==
  {[decodes |-> FALSE, json |-> PyNone]} \cup {[decodes |-> TRUE, json |-> j] : j \in Jsons}

\* the values of GEMINI_API_KEY in the environment
ApiKeys == {PyNone, PyStr(<<>>), PyStr(<<"key">>)}

\* the entries the search collaborator can hand back
RawResults ==
  {PyStr(<<"B">>),
   PyDict([title |-> <<"A">>, href |-> <<"u1">>, body |-> <<"b1">>]),
   PyDict([title |-> <<"D">>, href |-> <<>>])}

DdgsOutcomes ==
  {DdgsRaises}
  \cup {DdgsReturns(items) : items \in UNION {[1..n -> RawResults] : n \in 0..MaxRaw}}

GeminiOutcomes ==
  {GeminiSendRaises, GeminiTextRaises, GeminiReplies(<<"\n", "o", " ", "k", " ">>)}

\* ------------------------------------------------------------- the state
VARIABLES
  environ,    \* the process environment: [GEMINI_API_KEY |-> None or a string]
  program,    \* "boot", then "app" (app.py) or "main" (the script), "exited" at its end
  client,     \* the GeminiClient: [chat |-> None or the chat session]
  phase,      \* "idle", "pending" (an input waits), "done" (it was answered)
  request,    \* the input in flight
  generated,  \* the argument generate_response was called with, None if not called
  calls,      \* the calls made to the collaborators for this input, in order
  result,     \* what generate_response returned for this input
  response    \* the HTTP response, or the line printed

vars == <<environ, program, client, phase, request, generated, calls, result, response>>

NoRequest == [via |-> "none"]
NoResponse == [via |-> "none"]

Init ==
  /\ environ \in {[GEMINI_API_KEY |-> k] : k \in ApiKeys}
  /\ program = "boot"
  /\ client = PyNone
  /\ phase = "idle"
  /\ request = NoRequest
  /\ generated = PyNone
  /\ calls = <<>>
  /\ result = PyNone
  /\ response = NoResponse

\* the chat session after `turns` more turns were recorded
Recorded(c, turns) ==
  IF Truthy(c.chat) THEN [chat |-> ChatSession(c.chat.history + turns)] ELSE c

HistoryLen(c) == IF Truthy(c.chat) THEN c.chat.history ELSE 0

\* app.py is loaded: client = GeminiClient()
LoadApp ==
  /\ program = "boot"
  /\ \E sdk_raises \in BOOLEAN :
       client' = GeminiClient_init(environ.GEMINI_API_KEY, sdk_raises)
  /\ program' = "app"
  /\ UNCHANGED <<environ, phase, request, generated, calls, result, response>>

\* gemini_client.py is run as a script: client = GeminiClient()
RunMain ==
  /\ program = "boot"
  /\ \E sdk_raises \in BOOLEAN :
       client' = GeminiClient_init(environ.GEMINI_API_KEY, sdk_raises)
  /\ program' = "main"
  /\ UNCHANGED <<environ, phase, request, generated, calls, result, response>>

\* a client posts to /api/chat
PostChat ==
  /\ program = "app"
  /\ phase = "idle"
  /\ HistoryLen(client) < MaxTurns
  /\ \E body \in Bodies : request' = [via |-> "http", body |-> body]
  /\ phase' = "pending"
  /\ UNCHANGED <<environ, program, client, generated, calls, result, response>>

\* the route chat() answers the request
ChatRoute ==
  /\ program = "app"
  /\ phase = "pending"
  /\ \E ddgs \in DdgsOutcomes, gemini \in GeminiOutcomes :
       LET r == chat(client.chat, request.body, ddgs, gemini)
       IN /\ response' = r.response
          /\ generated' = r.generated
          /\ calls' = r.calls
          /\ result' = r.result
          /\ client' = Recorded(client, r.turns)
  /\ phase' = "done"
  /\ UNCHANGED <<environ, program, request>>

\* the user types a line at the prompt of the command line loop
ReadInput ==
  /\ program = "main"
  /\ phase = "idle"
  /\ HistoryLen(client) < MaxTurns
  /\ \E line \in Lines : request' = [via |-> "stdin", line |-> line]
  /\ phase' = "pending"
  /\ UNCHANGED <<environ, program, client, generated, calls, result, response>>

\* one turn of the command line loop
MainTurn ==
  /\ program = "main"
  /\ phase = "pending"
  /\ \E ddgs \in DdgsOutcomes, gemini \in GeminiOutcomes :
       LET r == main_turn(client.chat, request.line, ddgs, gemini)
       IN /\ response' = IF r.ends = "continue"
                         THEN [via |-> "stdout", printed |-> r.printed]
                         ELSE NoResponse
          /\ generated' = r.generated
          /\ calls' = r.calls
          /\ result' = r.result
          /\ client' = Recorded(client, r.turns)
          /\ program' = IF r.ends = "continue" THEN "main" ELSE "exited"
  /\ phase' = "done"
  /\ UNCHANGED <<environ, request>>

\* the answer is out: the values of this request are dropped
Finish ==
  /\ program \in {"app", "main"}
  /\ phase = "done"
  /\ phase' = "idle"
  /\ request' = NoRequest
  /\ generated' = PyNone
  /\ calls' = <<>>
  /\ result' = PyNone
  /\ response' = NoResponse
  /\ UNCHANGED <<environ, program, client>>

Next == LoadApp \/ RunMain \/ PostChat \/ ChatRoute \/ ReadInput \/ MainTurn \/ Finish

Spec == Init /\ [][Next]_vars

\* ------------------------------------------------- vocabulary of the claims
Whitespace == {" ", "\t", "\n"}

\* s is empty or made of whitespace only
Blank(s) == \A i \in 1..Len(s) : s[i] \in Whitespace

\* s without its leading and trailing whitespace: the stretch from its
\* first to its last character that is not whitespace
TrimOf(s) ==
  LET keep == {i \in 1..Len(s) : s[i] \notin Whitespace}
  IN IF keep = {} THEN <<>>
     ELSE SubSeq(s, CHOOSE i \in keep : \A j \in keep : i <= j,
                    CHOOSE i \in keep : \A j \in keep : i >= j)

\* t begins with word, letter case ignored
BeginsWith(t, word) ==
  /\ Len(t) >= Len(word)
  /\ \A i \in 1..Len(word) : LowerChar(t[i]) = word[i]

\* what follows the first c in t
AfterFirst(t, c) ==
  LET p == CHOOSE i \in 1..Len(t) : t[i] = c /\ \A j \in 1..(i - 1) : t[j] /= c
  IN SubSeq(t, p + 1, Len(t))

ColonTrigger(t) == BeginsWith(t, <<"s", "e", "a", "r", "c", "h", ":">>)
SlashTrigger(t) == BeginsWith(t, <<"/", "s", "e", "a", "r", "c", "h", " ">>)
HasTrigger(t) == ColonTrigger(t) \/ SlashTrigger(t)

\* the query a trigger carries
QueryOf(t) ==
  IF ColonTrigger(t) THEN TrimOf(AfterFirst(t, ":")) ELSE TrimOf(AfterFirst(t, " "))

\* generate_response was called for the input in flight and has returned
Answered == phase = "done" /\ generated /= PyNone
\* its argument, trimmed
Text == TrimOf(generated.v)
\* the route has answered a request
Routed == phase = "done" /\ request.via = "http"

Initialized == program /= "boot" /\ client.chat /= PyNone

SearchCalls == SelectSeq(calls, LAMBDA c : c.to = "search")
AiCalls == SelectSeq(calls, LAMBDA c : c.to = "ai")

\* an entry the search collaborator handed back that has a title and an href
Usable(e) ==
  /\ e.pytype = "dict"
  /\ "title" \in DOMAIN e.v /\ e.v.title /= <<>>
  /\ "href" \in DOMAIN e.v /\ e.v.href /= <<>>

\* the search collaborator raised, or handed back nothing usable
CameBackEmpty(reply) ==
  reply.raises \/ \A i \in 1..Len(reply.items) : ~Usable(reply.items[i])

\* the message posted: the empty text when the body does not decode or
\* has no message field
PostedText(body) ==
  IF body.decodes /\ body.json.pytype = "dict" /\ "message" \in DOMAIN body.json.v
  THEN body.json.v.message
  ELSE PyStr(<<>>)

\* the body does not decode, or is an object without message, or is an
\* object whose message is a string
PlainBody(body) ==
  \/ ~body.decodes
  \/ /\ body.json.pytype = "dict"
     /\ "message" \in DOMAIN body.json.v => body.json.v.message.pytype = "str"

\* ------------------------------------------------------------------ claims

C2_GeneratorFailureIs500 ==
  (Routed /\ generated /= PyNone /\ result.pytype = "dict" /\ ~result.v.success)
    => /\ response.status = 500
       /\ response.body = PyDict([success |-> FALSE,
                                  error |-> <<"Error generating response.">>])

\* C3: on the search path, when the search collaborator raises, returns an
\* empty list or returns only entries that lack a title or an href, generate
\* returns {success: false, response: "Could not retrieve web results."},
\* the AI collaborator is not called and the conversation history is unchanged.
C3_EmptySearchSkipsAi ==
  [][(phase' = "done" /\ generated' /= PyNone /\ SearchCalls' /= <<>>
        /\ CameBackEmpty(SearchCalls'[1].reply))
      => /\ result' = PyDict([success |-> FALSE,
                              response |-> <<"Could not retrieve web results.">>])
         /\ AiCalls' = <<>>
         /\ client' = client]_vars

C3_Witness ==
  /\ Answered
  /\ SearchCalls /= <<>>
  /\ ~SearchCalls[1].reply.raises
  /\ SearchCalls[1].reply.items /= <<>>
  /\ CameBackEmpty(SearchCalls[1].reply)
  /\ AiCalls = <<>>
  /\ result.pytype = "dict" /\ ~result.v.success

C5_EmptyQuerySearches ==
  (Answered /\ Initialized /\ ColonTrigger(Text) /\ QueryOf(Text) = <<>>)
    => /\ calls /= <<>>
       /\ calls[1].to = "search"
       /\ calls[1].query = <<>>
       /\ CameBackEmpty(calls[1].reply)
            => /\ result = PyDict([success |-> FALSE,
                                   response |-> <<"Could not retrieve web results.">>])
               /\ AiCalls = <<>>
       /\ ~(result.pytype = "dict" /\ "mode" \in DOMAIN result.v /\ result.v.mode = "chat")

\* C6: a client built without a credential, or whose construction failed,
\* has no chat; the program starts all the same, the client never gets a
\* chat later, and every call of generate, trigger or not, returns "AI
\* service is not configured correctly." without calling a collaborator.
C6_UnconfiguredStaysUnavailable ==
  [][/\ (program = "boot" /\ ~Truthy(environ.GEMINI_API_KEY) /\ program' /= "boot")
          => (program' \in {"app", "main"} /\ client'.chat = PyNone)
     /\ (program /= "boot" /\ client.chat = PyNone)
          => /\ client'.chat = PyNone
             /\ (phase' = "done" /\ generated' /= PyNone)
                  => /\ result' = PyStr(<<"AI service is not configured correctly.">>)
                     /\ calls' = <<>>]_vars

C6_Witness ==
  /\ Answered
  /\ client.chat = PyNone
  /\ ~Truthy(environ.GEMINI_API_KEY)
  /\ HasTrigger(Text)
  /\ QueryOf(Text) /= <<>>
  /\ result = PyStr(<<"AI service is not configured correctly.">>)

\* C7: generate never lets an exception out: whatever the input and the
\* collaborators do it returns a string or a dict, and when the AI
\* collaborator raises, on the chat path or on the search path, it returns
\* exactly {success: false, response: "An error occurred while processing
\* your request."}, which holds nothing of the exception's text.
C7_NoRawException ==
  Answered
    => /\ result.pytype \in {"str", "dict"}
       /\ (AiCalls /= <<>> /\ AiCalls[1].reply.outcome /= "ok")
            => /\ result = PyDict([success |-> FALSE,
                     response |-> <<"An error occurred while processing your request.">>])
               /\ \A i \in 1..Len(result.v.response), j \in 1..Len(AiCalls[1].reply.error) :
                    result.v.response[i] /= AiCalls[1].reply.error[j]

C7_Witness ==
  /\ Answered
  /\ SearchCalls /= <<>>
  /\ AiCalls /= <<>>
  /\ AiCalls[1].reply.outcome = "send_raises"
  /\ result.pytype = "dict"
  /\ ~result.v.success

\* C8: when the generator succeeds the route answers 200 with success =
\* true, the response text and every extra field of the generator's result:
\* mode is present, and query is present exactly when mode = "web_search".
C8_ExtrasPassThrough ==
  (Routed /\ generated /= PyNone /\ result.pytype = "dict" /\ result.v.success)
    => /\ response.status = 200
       /\ response.body.pytype = "dict"
       /\ response.body.v.success
       /\ response.body.v.response = result.v.response
       /\ "mode" \in DOMAIN response.body.v
       /\ response.body.v.mode = result.v.mode
       /\ ("query" \in DOMAIN response.body.v) <=> (result.v.mode = "web_search")

\* C9 as stated: for an input without a trigger prefix, generate calls no
\* search, sends the trimmed original text once to the AI collaborator and
\* returns {success: true, mode: "chat", response: the AI text trimmed},
\* without a query field.
C9_AsStated ==
  (Answered /\ ~HasTrigger(Text))
    => /\ Len(calls) = 1
       /\ calls[1].to = "ai"
       /\ calls[1].message = Text
       /\ result = PyDict([success |-> TRUE, mode |-> "chat",
                           response |-> TrimOf(calls[1].reply.text)])

\* C9 amended: on a client that has a chat, for an input without a trigger
\* prefix, generate calls no search and sends the trimmed original text,
\* letter case kept, once to the AI collaborator; when that send and the
\* reading of its text do not raise, it returns {success: true, mode:
\* "chat", response: the AI text trimmed}, without a query field.
C9_PlainChat ==
  (Answered /\ Initialized /\ ~HasTrigger(Text))
    => /\ Len(calls) = 1
       /\ calls[1].to = "ai"
       /\ calls[1].message = Text
       /\ calls[1].reply.outcome = "ok"
            => result = PyDict([success |-> TRUE, mode |-> "chat",
                                response |-> TrimOf(calls[1].reply.text)])

C9_Witness ==
  /\ Answered
  /\ Initialized
  /\ ~HasTrigger(Text)
  /\ generated.v /= Text
  /\ \E i \in 1..Len(Text) : Text[i] = "B"
  /\ BeginsWith(Text, <<"s", "e", "a", "r", "c", "h">>)
  /\ result.pytype = "dict"
  /\ result.v.success
  /\ result.v.mode = "chat"

\* C10: the trigger is looked for in the trimmed input, letter case ignored,
\* "search:" first and "/search " second; the query is what follows the first
\* ":" (for "search:") or the first space (for "/search "), trimmed, later
\* colons and spaces staying inside it, in the letter case of the input; an
\* input with neither prefix is not searched.
C10_TriggerQuery ==
  (Answered /\ Initialized)
    => /\ (ColonTrigger(Text) /\ TrimOf(AfterFirst(Text, ":")) /= <<>>)
            => /\ calls /= <<>>
               /\ calls[1].to = "search"
               /\ calls[1].query = TrimOf(AfterFirst(Text, ":"))
       /\ (~ColonTrigger(Text) /\ SlashTrigger(Text))
            => /\ calls /= <<>>
               /\ calls[1].to = "search"
               /\ calls[1].query = TrimOf(AfterFirst(Text, " "))
       /\ ~HasTrigger(Text) => SearchCalls = <<>>

C10_Witness ==
  /\ Answered
  /\ Initialized
  /\ SlashTrigger(Text)
  /\ Text[2] = "S"
  /\ calls /= <<>>
  /\ calls[1].to = "search"
  /\ calls[1].query = <<"B", " ", "B">>

====
